---- MODULE Spec2Model ----
(***************************************************************************)
(* Cost-aware model routing and telemetry of vextrus-erp:                  *)
(*   complexity_scorer.py  - the task complexity score                     *)
(*   model_selector.py     - the model tier chosen for a task              *)
(*   cost_tracker.py       - the persisted cost ledger and budget alerts   *)
(*                                                                         *)
(* Python values are modelled as follows.                                  *)
(*   str            a TLA+ string; substring search, lower() and endswith  *)
(*                  are computed character by character                    *)
(*   Optional[T]    None is <<>>, a value v is <<v>>                       *)
(*   money          integer cents; token counts are multiples of 100000,   *)
(*                  for which (tokens / 1e6) * rate is a whole number of   *)
(*                  cents, so sums are exact (float rounding is not        *)
(*                  modelled)                                              *)
(***************************************************************************)
EXTENDS Integers, Sequences, FiniteSets, TLC

VARIABLES
    work,        \* scorer: the arguments of one calculate_task_complexity call
    analysis,    \* scorer: its return value, <<>> before the call
    config,      \* selector: ModelSelector.config, set by the constructor
    request,     \* selector: the arguments of one select_model call
    decision,    \* selector: its outcome, <<>> before the call
    file,        \* ledger: the content of cost_tracking.json
    clock,       \* ledger: datetime.now(): month, day of the month, days elapsed
    procs,       \* ledger: per process, where it is in track_agent_invocation
    calls,       \* ledger: the number of track_agent_invocation calls begun
    returned,    \* ledger: what the call completed last gave its caller
    lookup,      \* categories: one get_agent_category call, its argument and result
    savings,     \* selector: one estimate_cost_savings call, its argument and result
    hook,        \* post-tool-use hook: the tool events handled so far, one process run each
    view,        \* dashboard: what the last run of the full view rendered
    tracker      \* performance tracker: one agent's profile, the day, and the outcomes still to come

scorerVars == <<work, analysis>>
selectorVars == <<config, request, decision>>
ledgerVars == <<file, clock, procs, calls, returned>>
categoryVars == <<lookup>>
savingsVars == <<savings>>
hookVars == <<hook>>
viewVars == <<view>>
metricsVars == <<tracker>>
vars == <<work, analysis, config, request, decision, file, clock, procs, calls, returned,
          lookup, savings, hook, view, tracker>>

\* bounds of the ledger's exploration
MaxCalls == 2
MaxDays == 1

\* at most this many tool events are handed to the post-tool-use hook
MaxEvents == 10

\* at most this many invocations of one agent are recorded when the outcomes
\* follow a fixed pattern, and at most this many when every outcome is free
MaxRecords == 150
MaxFreeRecords == 11

None == <<>>
Some(v) == <<v>>

Min(a, b) == IF a < b THEN a ELSE b
Max(a, b) == IF a > b THEN a ELSE b

(***************************************************************************)
(* Python string operations                                                *)
(***************************************************************************)
UpperLetters == "ABCDEFGHIJKLMNOPQRSTUVWXYZ"
LowerLetters == "abcdefghijklmnopqrstuvwxyz"

CharAt(s, i) == SubSeq(s, i, i)

\* str.lower() of one character
LowerChar(c) ==
    IF \E i \in 1..Len(UpperLetters) : CharAt(UpperLetters, i) = c
    THEN CharAt(LowerLetters, CHOOSE i \in 1..Len(UpperLetters) : CharAt(UpperLetters, i) = c)
    ELSE c

RECURSIVE Lower(_)
\* str.lower()
Lower(s) == IF s = "" THEN "" ELSE LowerChar(CharAt(s, 1)) \o Lower(SubSeq(s, 2, Len(s)))

\* s[i:i+len(sub)] == sub
MatchAt(sub, s, i) == i >= 1 /\ i + Len(sub) - 1 <= Len(s) /\ SubSeq(s, i, i + Len(sub) - 1) = sub

\* sub in s
Contains(sub, s) == \E i \in 1..(Len(s) + 1) : MatchAt(sub, s, i)

\* s.endswith(suffix)
EndsWith(s, suffix) == MatchAt(suffix, s, Len(s) - Len(suffix) + 1)

\* the characters the regular expression class \s matches
IsSpace(c) == c \in {" ", "\t", "\n"}

(***************************************************************************)
(* The task descriptions given to the scorer                               *)
(***************************************************************************)
Paths == { "src/app.ts", "docs/README.md", "api/schema.graphql", "db/migration_001.sql" }

\* numbers of files around the quantity tiers (5, 10, 20) and the 25 of the spec's example
FileCounts == {0, 1, 6, 11, 21, 24}

RECURSIVE Repeat(_, _)
Repeat(p, n) == IF n = 0 THEN <<>> ELSE <<p>> \o Repeat(p, n - 1)

\* n copies of one path followed by at most one other path
FileLists == { Repeat(p, n) \o tail : p \in Paths, n \in FileCounts,
                                      tail \in {<<>>} \cup {<<q>> : q \in Paths} }

Diffs == { None,
           Some("SELECT id FROM users"),
           Some("ALTER TABLE payments ADD COLUMN encrypted_data TEXT;"),
           Some("drop  table old; TRUNCATE audit") }

LinesChangedValues == {0, 150, 1001}
FunctionsAddedValues == {0, 21}

\* <<task_name, task_description>>
TaskTexts == { <<"", "">>,
               <<"Update docs", "fix typos">>,
               <<"", "run the database migration">>,
               <<"Payment API", "Implement payment authentication and encryption">> }

(***************************************************************************)
(* complexity_scorer.py                                                    *)
(***************************************************************************)
HIGH_RISK_KEYWORDS ==
    << "payment", "security", "auth", "authentication", "authorization",
       "invoice", "transaction", "finance", "migration", "event sourcing",
       "graphql", "federation", "encryption", "jwt", "token" >>

\* A file pattern is a literal, anchored at the end of the path for "\.graphql$".
HIGH_RISK_FILE_PATTERNS ==
    << [lit |-> "auth", atEnd |-> FALSE], [lit |-> "security", atEnd |-> FALSE],
       [lit |-> "payment", atEnd |-> FALSE], [lit |-> "invoice", atEnd |-> FALSE],
       [lit |-> "transaction", atEnd |-> FALSE], [lit |-> "migration", atEnd |-> FALSE],
       [lit |-> ".graphql", atEnd |-> TRUE], [lit |-> "schema.", atEnd |-> FALSE],
       [lit |-> "database", atEnd |-> FALSE], [lit |-> "config", atEnd |-> FALSE],
       [lit |-> "env", atEnd |-> FALSE] >>

\* A SQL pattern is a sequence of literals separated by \s+ .
CRITICAL_SQL_PATTERNS ==
    << <<"DROP", "TABLE">>, <<"ALTER", "TABLE">>, <<"DELETE", "FROM">>,
       <<"TRUNCATE">>, <<"DROP", "DATABASE">>, <<"executeRaw">>,
       <<"rawQuery">>, <<"unsafeRaw">> >>

\* re.search(pattern, file_lower) for a file pattern
SearchFilePattern(pattern, text) ==
    IF pattern.atEnd THEN EndsWith(text, pattern.lit) ELSE Contains(pattern.lit, text)

\* re.search(pattern, git_diff, re.IGNORECASE) for a SQL pattern
SearchSqlPattern(pattern, text) ==
    LET t == Lower(text)
        a == Lower(pattern[1])
    IN  IF Len(pattern) = 1
        THEN Contains(a, t)
        ELSE LET b == Lower(pattern[2])
             IN  \E i \in 1..Len(t) : \E k \in 1..Len(t) :
                    /\ MatchAt(a, t, i)
                    /\ \A j \in 0..(k - 1) :
                          /\ i + Len(a) + j <= Len(t)
                          /\ IsSpace(CharAt(t, i + Len(a) + j))
                    /\ MatchAt(b, t, i + Len(a) + k)

\* the quantity tier of analyze_file_changes
FileQuantityScore(n) ==
    IF n > 20 THEN 30 ELSE IF n > 10 THEN 20 ELSE IF n > 5 THEN 10 ELSE 0

\* what one pass of the loop over files_changed adds to score
FilePathScore(file_path) ==
    LET file_lower == Lower(file_path)
        risk == IF \E i \in 1..Len(HIGH_RISK_FILE_PATTERNS) :
                      SearchFilePattern(HIGH_RISK_FILE_PATTERNS[i], file_lower)
                THEN 5 ELSE 0
        kind == IF EndsWith(file_path, ".graphql") THEN 8
                ELSE IF Contains("migration", file_lower) THEN 10
                ELSE IF \/ EndsWith(file_path, ".md")
                        \/ EndsWith(file_path, ".txt")
                        \/ EndsWith(file_path, ".json") THEN -2
                ELSE 0
    IN  risk + kind

\* FilePathScore of every path of the model, computed once
FilePathScoreOf == [p \in Paths |-> FilePathScore(p)]

RECURSIVE SumFilePathScores(_)
\* the loop over files_changed
SumFilePathScores(files) ==
    IF files = <<>> THEN 0
    ELSE FilePathScoreOf[Head(files)] + SumFilePathScores(Tail(files))

\* FileClamp without the cap of 40
FileClamp_NoCap(score) == score

\* the value analyze_file_changes clamps and returns
FileClamp(score) == Min(score, 40)

analyze_file_changes(files_changed) ==
    FileClamp(FileQuantityScore(Len(files_changed)) + SumFilePathScores(files_changed))

LinesChangedScore(lines_changed) ==
    IF lines_changed > 1000 THEN 20
    ELSE IF lines_changed > 500 THEN 15
    ELSE IF lines_changed > 200 THEN 10
    ELSE IF lines_changed > 100 THEN 5
    ELSE 0

FunctionsAddedScore(functions_added) ==
    IF functions_added > 20 THEN 10
    ELSE IF functions_added > 10 THEN 7
    ELSE IF functions_added > 5 THEN 5
    ELSE 0

\* the loop over CRITICAL_SQL_PATTERNS: the patterns found in the diff
CriticalPatterns(git_diff) ==
    IF git_diff = None \/ git_diff = Some("") THEN {}
    ELSE {i \in 1..Len(CRITICAL_SQL_PATTERNS) : SearchSqlPattern(CRITICAL_SQL_PATTERNS[i], git_diff[1])}

\* CriticalPatterns of every diff of the model, computed once
CriticalPatternsOf == [d \in Diffs |-> CriticalPatterns(d)]

\* score of analyze_code_changes before the final min
CodeRawScore(git_diff, lines_changed, functions_added) ==
    LinesChangedScore(lines_changed) + FunctionsAddedScore(functions_added)
        + 15 * Cardinality(CriticalPatternsOf[git_diff])

analyze_code_changes(git_diff, lines_changed, functions_added) ==
    Min(CodeRawScore(git_diff, lines_changed, functions_added), 30)

AnyIn(keywords, text) == \E k \in keywords : Contains(k, text)

analyze_domain_complexity(task_description, task_name) ==
    LET full_text == Lower(task_name \o " " \o task_description)
        found == {i \in 1..Len(HIGH_RISK_KEYWORDS) : Contains(HIGH_RISK_KEYWORDS[i], full_text)}
        category ==
            IF AnyIn({"payment", "invoice", "transaction", "finance"}, full_text) THEN 5
            ELSE IF AnyIn({"auth", "security", "encryption"}, full_text) THEN 8
            ELSE IF AnyIn({"migration", "database", "schema"}, full_text) THEN 7
            ELSE IF AnyIn({"graphql", "federation", "api"}, full_text) THEN 5
            ELSE 0
    IN  Min(3 * Cardinality(found) + category, 25)

\* analyze_domain_complexity of every task text of the model, computed once
DomainScoreOf == [t \in TaskTexts |-> analyze_domain_complexity(t[2], t[1])]

\* analyze_risk_factors that adds the 10 when tests are present
analyze_risk_factors_TestsAdd(affects_production, breaking_change, has_tests) ==
    Min((IF affects_production THEN 20 ELSE 0)
        + (IF breaking_change THEN 15 ELSE 0)
        + (IF has_tests THEN 10 ELSE 0), 35)

analyze_risk_factors(affects_production, breaking_change, has_tests) ==
    Min((IF affects_production THEN 20 ELSE 0)
        + (IF breaking_change THEN 15 ELSE 0)
        + (IF ~has_tests THEN 10 ELSE 0), 35)

\* FinalScore without the max(0, ...)
FinalScore_NoFloor(total_score) == Min(total_score, 100)

\* final_score = max(0, min(total_score, 100))
FinalScore(total_score) == Max(0, Min(total_score, 100))

ModelRecommendation(final_score) ==
    IF final_score < 30 THEN "haiku-4.5"
    ELSE IF final_score < 60 THEN "haiku-with-sonnet-review"
    ELSE "sonnet-4.5"

calculate_task_complexity(w) ==
    LET file_score == IF w.files_changed # None /\ w.files_changed[1] # <<>>
                      THEN analyze_file_changes(w.files_changed[1]) ELSE 0
        code_score == analyze_code_changes(w.git_diff, w.lines_changed, w.functions_added)
        domain_score == DomainScoreOf[<<w.task_name, w.task_description>>]
        risk_score == analyze_risk_factors(w.affects_production, w.breaking_change, w.has_tests)
        total_score == file_score + code_score + domain_score + risk_score
        final_score == FinalScore(total_score)
    IN  [ complexity_score |-> final_score,
          model_recommendation |-> ModelRecommendation(final_score),
          breakdown |-> [ file_complexity |-> file_score,
                          code_complexity |-> code_score,
                          domain_complexity |-> domain_score,
                          risk_factors |-> risk_score ] ]

Works ==
    { [ files_changed |-> f, git_diff |-> d, lines_changed |-> l, functions_added |-> fn,
        task_name |-> t[1], task_description |-> t[2],
        affects_production |-> ap, breaking_change |-> bc, has_tests |-> ht ] :
      f \in {None} \cup {Some(fl) : fl \in FileLists}, d \in Diffs,
      l \in LinesChangedValues, fn \in FunctionsAddedValues, t \in TaskTexts,
      ap \in BOOLEAN, bc \in BOOLEAN, ht \in BOOLEAN }

(***************************************************************************)
(* model_selector.py                                                       *)
(***************************************************************************)
\* A Python dict is a function on its keys.
HasKey(d, k) == k \in DOMAIN d

\* d.update(u)
DictUpdate(d, u) ==
    [k \in DOMAIN d \cup DOMAIN u |-> IF k \in DOMAIN u THEN u[k] ELSE d[k]]

default_config ==
    [ enabled |-> TRUE,
      auto_model_selection |-> TRUE,
      thresholds |-> [haiku_max |-> 30, sonnet_min |-> 60],
      cost_limits |-> [monthly_budget_usd |-> 500, daily_budget_usd |-> 20,
                       alert_threshold_pct |-> 80],
      overrides |-> [ always_sonnet |-> << "payment", "security", "auth", "migration",
                                           "encryption", "transaction" >>,
                      always_haiku |-> << "documentation", "tests", "refactor-simple" >> ] ]

\* The configuration file at config_path: absent (config_path is None or
\* the file is missing), unparseable (json.load raises), or holding the
\* object `cost` at optimization.cost.
ConfigFiles ==
    { [exists |-> FALSE],
      [exists |-> TRUE, parses |-> FALSE],
      [exists |-> TRUE, parses |-> TRUE, cost |-> [enabled |-> FALSE]],
      [exists |-> TRUE, parses |-> TRUE, cost |-> [auto_model_selection |-> FALSE]],
      [exists |-> TRUE, parses |-> TRUE,
       cost |-> [thresholds |-> [haiku_max |-> 70, sonnet_min |-> 40]]],
      [exists |-> TRUE, parses |-> TRUE, cost |-> [thresholds |-> [haiku_max |-> 20]]],
      [exists |-> TRUE, parses |-> TRUE,
       cost |-> [thresholds |-> [haiku_max |-> 20, sonnet_min |-> 80]]],
      [exists |-> TRUE, parses |-> TRUE,
       cost |-> [overrides |-> [always_sonnet |-> <<"deploy">>]]] }

_load_config(cf) ==
    IF cf.exists /\ cf.parses
    THEN DictUpdate(default_config, cf.cost)
    ELSE default_config

\* the first keyword of the list found in the text, 0 when there is none
FirstKeyword(keywords, full_text) ==
    IF \E i \in 1..Len(keywords) : Contains(Lower(keywords[i]), full_text)
    THEN CHOOSE i \in 1..Len(keywords) :
            /\ Contains(Lower(keywords[i]), full_text)
            /\ \A j \in 1..(i - 1) : ~Contains(Lower(keywords[j]), full_text)
    ELSE 0

\* The outcome of a call: the returned dict, or [raised |-> the exception].
Raised(e) == [raised |-> e]

\* check_overrides returns None, or the model of the first rule that matches
check_overrides(cfg, task_name, task_description) ==
    LET full_text == Lower(task_name \o " " \o task_description)
    IN  IF FirstKeyword(cfg.overrides.always_sonnet, full_text) > 0 THEN Some("sonnet-4.5")
        ELSE IF FirstKeyword(cfg.overrides.always_haiku, full_text) > 0 THEN Some("haiku-4.5")
        ELSE None

\* check_overrides raises KeyError when it reads a keyword list the
\* configuration lacks
CheckOverridesRaises(cfg, task_name, task_description) ==
    LET full_text == Lower(task_name \o " " \o task_description)
    IN  \/ ~HasKey(cfg.overrides, "always_sonnet")
        \/ /\ FirstKeyword(cfg.overrides.always_sonnet, full_text) = 0
           /\ ~HasKey(cfg.overrides, "always_haiku")

\* if user_override:
Truthy(opt) == opt # None /\ opt # Some("")

\* complexity_analysis.get('complexity_score', default)
GetScore(complexity_analysis, default) ==
    IF HasKey(complexity_analysis, "complexity_score")
    THEN complexity_analysis.complexity_score ELSE default

\* ThresholdSelection that gives the haiku_max score itself to the review tier
ThresholdSelection_StrictHaiku(cfg, complexity_analysis) ==
    LET score == GetScore(complexity_analysis, 50)
    IN  IF ~HasKey(cfg.thresholds, "haiku_max") \/ ~HasKey(cfg.thresholds, "sonnet_min")
        THEN Raised("KeyError")
        ELSE [ model |-> IF score < cfg.thresholds.haiku_max THEN "haiku-4.5"
                         ELSE IF score < cfg.thresholds.sonnet_min
                              THEN "haiku-with-sonnet-review"
                              ELSE "sonnet-4.5",
               selection_method |-> "complexity_based",
               complexity_score |-> score ]

\* the complexity-based branch of select_model
ThresholdSelection(cfg, complexity_analysis) ==
    LET score == GetScore(complexity_analysis, 50)
    IN  IF ~HasKey(cfg.thresholds, "haiku_max") \/ ~HasKey(cfg.thresholds, "sonnet_min")
        THEN Raised("KeyError")
        ELSE [ model |-> IF score <= cfg.thresholds.haiku_max THEN "haiku-4.5"
                         ELSE IF score < cfg.thresholds.sonnet_min
                              THEN "haiku-with-sonnet-review"
                              ELSE "sonnet-4.5",
               selection_method |-> "complexity_based",
               complexity_score |-> score ]

\* OverrideSelection that tries the override rules before the user's override
OverrideSelection_RulesFirst(cfg, r) ==
    IF CheckOverridesRaises(cfg, r.task_name, r.task_description)
    THEN Raised("KeyError")
    ELSE LET override_model == check_overrides(cfg, r.task_name, r.task_description)
         IN  IF override_model # None
             THEN [ model |-> override_model[1],
                    selection_method |-> "rule_override",
                    complexity_score |-> GetScore(r.complexity_analysis, 0) ]
             ELSE IF Truthy(r.user_override)
             THEN [ model |-> r.user_override[1],
                    selection_method |-> "user_override",
                    complexity_score |-> GetScore(r.complexity_analysis, 0) ]
             ELSE ThresholdSelection(cfg, r.complexity_analysis)

\* the user-override and rule-override branches, in the order the code tries them
OverrideSelection(cfg, r) ==
    IF Truthy(r.user_override)
    THEN [ model |-> r.user_override[1],
           selection_method |-> "user_override",
           complexity_score |-> GetScore(r.complexity_analysis, 0) ]
    ELSE IF CheckOverridesRaises(cfg, r.task_name, r.task_description)
    THEN Raised("KeyError")
    ELSE LET override_model == check_overrides(cfg, r.task_name, r.task_description)
         IN  IF override_model # None
             THEN [ model |-> override_model[1],
                    selection_method |-> "rule_override",
                    complexity_score |-> GetScore(r.complexity_analysis, 0) ]
             ELSE ThresholdSelection(cfg, r.complexity_analysis)

\* select_model that looks at the user's override before the disabled switch
select_model_OverrideFirst(cfg, r) ==
    IF Truthy(r.user_override)
    THEN [ model |-> r.user_override[1],
           selection_method |-> "user_override",
           complexity_score |-> GetScore(r.complexity_analysis, 0) ]
    ELSE IF ~cfg.enabled \/ ~cfg.auto_model_selection
    THEN [ model |-> "sonnet-4.5", selection_method |-> "disabled" ]
    ELSE OverrideSelection(cfg, r)

select_model(cfg, r) ==
    IF ~cfg.enabled \/ ~cfg.auto_model_selection
    THEN [ model |-> "sonnet-4.5", selection_method |-> "disabled" ]
    ELSE OverrideSelection(cfg, r)

\* the complexity_analysis dicts given to select_model: with every score, and without one
Analyses == { [complexity_score |-> n] : n \in 0..100 } \cup { [error |-> "no score"] }

\* <<task_name, task_description>>
SelectorTexts == { <<"Rename helper", "tidy the helper module">>,
                   <<"Payment API", "Implement payment authentication and encryption">>,
                   <<"Update docs", "refresh the documentation">>,
                   <<"Security tests", "add tests for auth">> }

UserOverrides == { None, Some(""), Some("haiku-4.5"), Some("low-cost") }

Requests ==
    { [ complexity_analysis |-> a, task_name |-> t[1], task_description |-> t[2],
        user_override |-> o ] :
      a \in Analyses, t \in SelectorTexts, o \in UserOverrides }

(***************************************************************************)
(* cost_tracker.py                                                         *)
(***************************************************************************)
\* d without anything under it, d[k] = v, d.get(k, default)
EmptyDict == [k \in {} |-> 0]
Put(d, k, v) == [j \in DOMAIN d \cup {k} |-> IF j = k THEN v ELSE d[j]]
Get(d, k, default) == IF k \in DOMAIN d THEN d[k] ELSE default

\* Rates in cents per 100000 tokens, which is ten times the source's USD
\* per 1M tokens: 3.0 / 15.0 for Sonnet, 0.8 / 4.0 for Haiku.
MODEL_COSTS ==
    [ m \in {"sonnet-4.5", "haiku-4.5", "claude-sonnet-4", "claude-haiku-4"} |->
        IF m \in {"sonnet-4.5", "claude-sonnet-4"}
        THEN [input |-> 30, output |-> 150]
        ELSE [input |-> 8, output |-> 40] ]

\* The category table, in the order the dict is iterated.
AGENT_CATEGORIES ==
    << [ category |-> "backend-development",
         agents |-> { "backend-architect", "graphql-architect", "tdd-orchestrator",
                      "django-pro", "fastapi-pro", "python-pro" } ],
       [ category |-> "quality-testing",
         agents |-> { "code-reviewer", "test-automator", "tdd-orchestrator",
                      "debugger", "performance-engineer" } ],
       [ category |-> "compounding-engineering",
         agents |-> { "architecture-strategist", "best-practices-researcher",
                      "kieran-python-reviewer", "kieran-typescript-reviewer",
                      "performance-oracle", "security-sentinel" } ],
       [ category |-> "infrastructure",
         agents |-> { "deployment-engineer", "terraform-specialist", "cloud-architect",
                      "kubernetes-architect", "devops-troubleshooter" } ],
       [ category |-> "debugging",
         agents |-> { "debugger", "error-detective", "devops-troubleshooter",
                      "dx-optimizer" } ],
       [ category |-> "documentation",
         agents |-> { "docs-architect", "api-documenter", "tutorial-engineer",
                      "mermaid-expert" } ] >>

\* the invocations reported to the ledger
Agents == { "backend-development:backend-architect", "code-reviewer" }
Models == { "sonnet-4.5", "claude-haiku-4", "gpt-4" }

Report(agent, model, tokens_input, tokens_output) ==
    [ agent_name |-> agent, model |-> model,
      tokens_input |-> tokens_input, tokens_output |-> tokens_output ]

Reports ==
    { Report("backend-development:backend-architect", "sonnet-4.5", 1000000, 0),
      Report("backend-development:backend-architect", "sonnet-4.5", 0, 28000000),
      Report("code-reviewer", "claude-haiku-4", 0, 28000000),
      Report("code-reviewer", "gpt-4", 1000000, 0),
      Report("backend-development:backend-architect", "sonnet-4.5", -1000000, 0) }

\* 500.0 USD, in cents
MONTHLY_BUDGET_CENTS == 50000
ALERT_THRESHOLD_PCT == 80

\* the positions of ":" in s
Colons(s) == {i \in 1..Len(s) : CharAt(s, i) = ":"}

\* s.split(":")[0] and s.split(":")[-1] of a string that holds a ":"
BeforeFirstColon(s) ==
    SubSeq(s, 1, (CHOOSE i \in Colons(s) : \A j \in Colons(s) : i <= j) - 1)
AfterLastColon(s) ==
    SubSeq(s, (CHOOSE i \in Colons(s) : \A j \in Colons(s) : i >= j) + 1, Len(s))

CategoryNames == {AGENT_CATEGORIES[i].category : i \in 1..Len(AGENT_CATEGORIES)}

\* get_agent_category that returns the last category listing the short name
get_agent_category_LastListing(agent_name) ==
    LET hasColon == Colons(agent_name) # {}
        agent_short == IF hasColon THEN AfterLastColon(agent_name) ELSE agent_name
        listing == {i \in 1..Len(AGENT_CATEGORIES) : agent_short \in AGENT_CATEGORIES[i].agents}
    IN  IF hasColon /\ BeforeFirstColon(agent_name) \in CategoryNames
        THEN BeforeFirstColon(agent_name)
        ELSE IF listing # {}
        THEN AGENT_CATEGORIES[CHOOSE i \in listing : \A j \in listing : i >= j].category
        ELSE "other"

get_agent_category(agent_name) ==
    LET hasColon == Colons(agent_name) # {}
        agent_short == IF hasColon THEN AfterLastColon(agent_name) ELSE agent_name
        listing == {i \in 1..Len(AGENT_CATEGORIES) : agent_short \in AGENT_CATEGORIES[i].agents}
    IN  IF hasColon /\ BeforeFirstColon(agent_name) \in CategoryNames
        THEN BeforeFirstColon(agent_name)
        ELSE IF listing # {}
        THEN AGENT_CATEGORIES[CHOOSE i \in listing : \A j \in listing : i <= j].category
        ELSE "other"

\* the identifiers given to get_agent_category alone: a short name, or a
\* short name behind one or two namespace prefixes
ShortNames == { "backend-architect", "code-reviewer", "debugger", "tdd-orchestrator",
                "mermaid-expert", "unknown-agent", "" }
Prefixes == { "backend-development", "quality-testing", "compounding-engineering",
              "infrastructure", "debugging", "documentation", "custom", "other" }
AgentNames ==
    (ShortNames \ {""})
        \cup { pre \o ":" \o short : pre \in Prefixes, short \in ShortNames }
        \cup { "custom:debugging:debugger", "debugging:custom:code-reviewer" }

\* get_agent_category of every agent of the model, computed once
AgentCategoryOf == [a \in Agents |-> get_agent_category(a)]

\* the rates calculate_cost picks for a model name
CostRates(model) ==
    LET model_lower == Lower(model)
    IN  IF Contains("sonnet", model_lower) THEN MODEL_COSTS["sonnet-4.5"]
        ELSE IF Contains("haiku", model_lower) THEN MODEL_COSTS["haiku-4.5"]
        ELSE MODEL_COSTS["sonnet-4.5"]

\* CostRates of every model of the model, computed once
CostRatesOf == [m \in Models |-> CostRates(m)]

\* cost in cents; exact for token counts that are multiples of 100000
calculate_cost(model, tokens_input, tokens_output) ==
    (tokens_input \div 100000) * CostRatesOf[model].input
        + (tokens_output \div 100000) * CostRatesOf[model].output

\* model_category = "sonnet" if "sonnet" in model.lower() else "haiku"
ModelCategory(model) == IF Contains("sonnet", Lower(model)) THEN "sonnet" ELSE "haiku"

\* ModelCategory of every model of the model, computed once
ModelCategoryOf == [m \in Models |-> ModelCategory(m)]

\* A float that is a quotient is kept as the quotient num / den, den > 0.
Ratio(n, d) == [num |-> n, den |-> d]
ZeroRatio == Ratio(0, 1)

\* strftime("%Y-%m") and strftime("%Y-%m-%d") of a clock value
MonthKey(now) == <<now.month>>
DateKey(now) == <<now.month, now.day>>
MonthOfDate(date) == <<date[1]>>

NewMonth ==
    [ total_cost_usd |-> 0, sonnet_cost_usd |-> 0, haiku_cost_usd |-> 0,
      sonnet_tokens_input |-> 0, sonnet_tokens_output |-> 0,
      haiku_tokens_input |-> 0, haiku_tokens_output |-> 0,
      by_agent_category |-> EmptyDict, by_agent |-> EmptyDict, alerts |-> <<>> ]

NewDay ==
    [ total_cost_usd |-> 0, sonnet_cost_usd |-> 0, haiku_cost_usd |-> 0,
      sonnet_tokens_input |-> 0, sonnet_tokens_output |-> 0,
      haiku_tokens_input |-> 0, haiku_tokens_output |-> 0,
      by_agent_category |-> EmptyDict, by_agent |-> EmptyDict, invocations |-> <<>> ]

NewAgent == [cost_usd |-> 0, invocations |-> 0, tokens_input |-> 0, tokens_output |-> 0]

_initialize_cost_tracking(now) ==
    [ metadata |-> [version |-> "1.0", created |-> now, last_updated |-> now],
      config |-> [ monthly_budget_usd |-> MONTHLY_BUDGET_CENTS,
                   alert_threshold_pct |-> ALERT_THRESHOLD_PCT ],
      daily |-> EmptyDict,
      monthly |-> Put(EmptyDict, MonthKey(now), NewMonth),
      statistics |-> [ total_invocations |-> 0, avg_cost_per_invocation |-> ZeroRatio,
                       sonnet_usage_pct |-> ZeroRatio, haiku_usage_pct |-> ZeroRatio ] ]

\* The file cost_tracking.json: missing, unparseable, or holding a JSON value.
MissingFile == [kind |-> "missing"]
UnparseableFile == [kind |-> "unparseable"]
JsonFile(d) == [kind |-> "json", data |-> d]

\* a JSON object that has none of the daily/monthly/config/statistics keys
BadStructure == [metadata |-> [version |-> "0.9"]]

\* readError: open() or json.load raises although the file holds JSON
load_cost_tracking(f, now, readError) ==
    IF f.kind = "missing" THEN _initialize_cost_tracking(now)
    ELSE IF f.kind = "unparseable" \/ readError THEN _initialize_cost_tracking(now)
    ELSE f.data

\* save_cost_tracking writes the whole document
save_cost_tracking(d) == JsonFile(d)

\* the updates track_agent_invocation makes to a monthly and to a daily
\* bucket alike: totals, per-tier cost and tokens, per-category cost
AddToBucket(b, model_category, agent_category, cost, tokens_input, tokens_output) ==
    [ b EXCEPT !.total_cost_usd = @ + cost,
               ![model_category \o "_cost_usd"] = @ + cost,
               ![model_category \o "_tokens_input"] = @ + tokens_input,
               ![model_category \o "_tokens_output"] = @ + tokens_output,
               !.by_agent_category = Put(@, agent_category, Get(@, agent_category, 0) + cost) ]

\* UpdateMonthly that adds the agent's cost and tokens but does not count
\* the invocation
UpdateMonthly_NoAgentCount(monthly, a, cost) ==
    LET b == AddToBucket(monthly, ModelCategoryOf[a.model], AgentCategoryOf[a.agent_name],
                         cost, a.tokens_input, a.tokens_output)
        old == Get(b.by_agent, a.agent_name, NewAgent)
    IN  [ b EXCEPT !.by_agent =
            Put(@, a.agent_name,
                [ cost_usd |-> old.cost_usd + cost,
                  invocations |-> old.invocations,
                  tokens_input |-> old.tokens_input + a.tokens_input,
                  tokens_output |-> old.tokens_output + a.tokens_output ]) ]

UpdateMonthly(monthly, a, cost) ==
    LET b == AddToBucket(monthly, ModelCategoryOf[a.model], AgentCategoryOf[a.agent_name],
                         cost, a.tokens_input, a.tokens_output)
        old == Get(b.by_agent, a.agent_name, NewAgent)
    IN  [ b EXCEPT !.by_agent =
            Put(@, a.agent_name,
                [ cost_usd |-> old.cost_usd + cost,
                  invocations |-> old.invocations + 1,
                  tokens_input |-> old.tokens_input + a.tokens_input,
                  tokens_output |-> old.tokens_output + a.tokens_output ]) ]

\* UpdateDaily that logs the entry and leaves the day's rollups alone
UpdateDaily_EntryOnly(daily, a, cost, now) ==
    [ daily EXCEPT !.invocations = Append(@, [ timestamp |-> now, agent |-> a.agent_name,
                                               model |-> a.model,
                                               tokens_input |-> a.tokens_input,
                                               tokens_output |-> a.tokens_output,
                                               cost_usd |-> cost ]) ]

UpdateDaily(daily, a, cost, now) ==
    LET b == AddToBucket(daily, ModelCategoryOf[a.model], AgentCategoryOf[a.agent_name],
                         cost, a.tokens_input, a.tokens_output)
    IN  [ b EXCEPT !.by_agent = Put(@, a.agent_name, Get(@, a.agent_name, 0) + cost),
                   !.invocations = Append(@, [ timestamp |-> now, agent |-> a.agent_name,
                                               model |-> a.model,
                                               tokens_input |-> a.tokens_input,
                                               tokens_output |-> a.tokens_output,
                                               cost_usd |-> cost ]) ]

RECURSIVE SumOver(_, _, _)
\* sum(m[field] for m in d.values())
SumOver(d, keys, field) ==
    IF keys = {} THEN 0
    ELSE LET k == CHOOSE x \in keys : TRUE
         IN  d[k][field] + SumOver(d, keys \ {k}, field)

UpdateStatistics(statistics, monthly) ==
    LET total_invocations == statistics.total_invocations + 1
        total_cost == SumOver(monthly, DOMAIN monthly, "total_cost_usd")
        total_sonnet == SumOver(monthly, DOMAIN monthly, "sonnet_cost_usd")
        total_haiku == SumOver(monthly, DOMAIN monthly, "haiku_cost_usd")
        total_model_cost == total_sonnet + total_haiku
    IN  [ total_invocations |-> total_invocations,
          avg_cost_per_invocation |-> Ratio(total_cost, total_invocations),
          sonnet_usage_pct |-> IF total_model_cost > 0
                               THEN Ratio(total_sonnet * 100, total_model_cost)
                               ELSE statistics.sonnet_usage_pct,
          haiku_usage_pct |-> IF total_model_cost > 0
                              THEN Ratio(total_haiku * 100, total_model_cost)
                              ELSE statistics.haiku_usage_pct ]

\* existing_alerts = [a for a in monthly["alerts"] if a["type"] == alert["type"]]
AlreadyAlerted(alerts, type) == \E i \in 1..Len(alerts) : alerts[i].type = type

\* CheckBudget that appends its alert without looking for an earlier one
CheckBudget_NoDedup(monthly, cfg, now) ==
    LET below100 == monthly.total_cost_usd < cfg.monthly_budget_usd
    IN  IF monthly.total_cost_usd * 100 >= cfg.alert_threshold_pct * cfg.monthly_budget_usd
        THEN [ monthly EXCEPT !.alerts =
                 Append(@, [ timestamp |-> now,
                             type |-> IF below100 THEN "budget_warning" ELSE "budget_exceeded",
                             severity |-> IF below100 THEN "warning" ELSE "critical" ]) ]
        ELSE monthly

\* CheckBudget that takes an alert of any kind for an earlier one
CheckBudget_AnyKind(monthly, cfg, now) ==
    LET below100 == monthly.total_cost_usd < cfg.monthly_budget_usd
    IN  IF /\ monthly.total_cost_usd * 100 >= cfg.alert_threshold_pct * cfg.monthly_budget_usd
           /\ monthly.alerts = <<>>
        THEN [ monthly EXCEPT !.alerts =
                 Append(@, [ timestamp |-> now,
                             type |-> IF below100 THEN "budget_warning" ELSE "budget_exceeded",
                             severity |-> IF below100 THEN "warning" ELSE "critical" ]) ]
        ELSE monthly

\* the budget check: spend_pct = current_spend / budget * 100 is compared
\* with the threshold and with 100 without dividing
CheckBudget(monthly, cfg, now) ==
    LET budget == cfg.monthly_budget_usd
        current_spend == monthly.total_cost_usd
        reached == current_spend * 100 >= cfg.alert_threshold_pct * budget
        below100 == current_spend < budget
        alert == [ timestamp |-> now,
                   type |-> IF below100 THEN "budget_warning" ELSE "budget_exceeded",
                   severity |-> IF below100 THEN "warning" ELSE "critical" ]
    IN  IF reached /\ ~AlreadyAlerted(monthly.alerts, alert.type)
        THEN [monthly EXCEPT !.alerts = Append(@, alert)]
        ELSE monthly

\* track_agent_invocation raises KeyError on a document without its keys
HasStructure(d) ==
    /\ HasKey(d, "monthly") /\ HasKey(d, "daily")
    /\ HasKey(d, "statistics") /\ HasKey(d, "config") /\ HasKey(d, "metadata")

\* the document track_agent_invocation saves, from the one it loaded
TrackUpdate(d, a, now) ==
    LET cost == calculate_cost(a.model, a.tokens_input, a.tokens_output)
        current_month == MonthKey(now)
        current_date == DateKey(now)
        month0 == Get(d.monthly, current_month, NewMonth)
        day0 == Get(d.daily, current_date, NewDay)
        month1 == UpdateMonthly(month0, a, cost)
        day1 == UpdateDaily(day0, a, cost, now)
        monthly1 == Put(d.monthly, current_month, month1)
        statistics1 == UpdateStatistics(d.statistics, monthly1)
        month2 == CheckBudget(month1, d.config, now)
    IN  [ d EXCEPT !.monthly = Put(d.monthly, current_month, month2),
                   !.daily = Put(d.daily, current_date, day1),
                   !.statistics = statistics1,
                   !.metadata.last_updated = now ]

\* the dict get_current_month_summary returns from the document it loaded
MonthSummary(d, now) ==
    LET current_month == MonthKey(now)
        budget == d.config.monthly_budget_usd
    IN  IF current_month \notin DOMAIN d.monthly
        THEN [ month |-> current_month, total_cost_usd |-> 0, budget_usd |-> budget,
               budget_remaining_usd |-> budget, spend_pct |-> ZeroRatio, alerts |-> <<>> ]
        ELSE LET monthly == d.monthly[current_month]
                 total == monthly.total_cost_usd
             IN  [ month |-> current_month,
                   total_cost_usd |-> total,
                   budget_usd |-> budget,
                   budget_remaining_usd |-> budget - total,
                   spend_pct |-> Ratio(total * 100, budget),
                   sonnet_cost_usd |-> monthly.sonnet_cost_usd,
                   haiku_cost_usd |-> monthly.haiku_cost_usd,
                   sonnet_pct |-> IF total > 0 THEN Ratio(monthly.sonnet_cost_usd * 100, total)
                                  ELSE ZeroRatio,
                   haiku_pct |-> IF total > 0 THEN Ratio(monthly.haiku_cost_usd * 100, total)
                                 ELSE ZeroRatio,
                   by_category |-> monthly.by_agent_category,
                   alerts |-> monthly.alerts ]

\* what get_optimization_suggestions returns from the document it loaded:
\* whether the list holds the "cost" suggestion, with its
\* estimated_savings_usd, and the categories of its "usage" suggestions
\* (their order in the list, that of the dict, is not kept)
OptimizationSuggestions(d, now) ==
    LET statistics == d.statistics
        sonnet_pct == statistics.sonnet_usage_pct
        sonnet_high == sonnet_pct.num > 40 * sonnet_pct.den
        avg == statistics.avg_cost_per_invocation
        current_month == MonthKey(now)
        by_category == IF current_month \in DOMAIN d.monthly
                       THEN d.monthly[current_month].by_agent_category ELSE EmptyDict
        total_month_cost == IF current_month \in DOMAIN d.monthly
                            THEN d.monthly[current_month].total_cost_usd ELSE 0
    IN  [ cost |-> IF sonnet_high
                   THEN Some(Ratio(avg.num * 4 * statistics.total_invocations, avg.den * 10))
                   ELSE None,
          usage |-> { c \in DOMAIN by_category :
                        /\ total_month_cost > 0
                        /\ by_category[c] * 100 > 30 * total_month_cost } ]

\* current_usage dicts: a key that is absent is None
Usage(sonnet_pct, haiku_pct, monthly_cost_usd) ==
    [ sonnet_pct |-> sonnet_pct, haiku_pct |-> haiku_pct,
      monthly_cost_usd |-> monthly_cost_usd ]

\* dict.get(key, default)
GetOr(opt, default) == IF opt = None THEN default ELSE opt[1]

\* estimate_cost_savings with the optimal cost factor computed with the two
\* percentages exchanged
estimate_cost_savings_SwappedOptimal(current_usage) ==
    LET sonnet_pct == GetOr(current_usage.sonnet_pct, 50)
        haiku_pct == GetOr(current_usage.haiku_pct, 50)
        monthly_cost == GetOr(current_usage.monthly_cost_usd, 500)
        optimal_haiku_pct == 70 + (20 \div 2)
        optimal_sonnet_pct == 10 + (20 \div 2)
        current_cost_factor == (sonnet_pct * 4) + (haiku_pct * 1)
        optimal_cost_factor == (optimal_haiku_pct * 4) + (optimal_sonnet_pct * 1)
    IN  IF current_cost_factor = 0 THEN Raised("ZeroDivisionError")
        ELSE [ raised |-> "",
               current |-> Usage(sonnet_pct, haiku_pct, monthly_cost),
               optimized |-> Usage(optimal_sonnet_pct, optimal_haiku_pct,
                                   Ratio(monthly_cost * optimal_cost_factor,
                                         current_cost_factor)),
               savings |->
                 [ monthly_usd |-> Ratio(monthly_cost * (current_cost_factor
                                            - optimal_cost_factor), current_cost_factor),
                   annual_usd |-> Ratio(12 * monthly_cost * (current_cost_factor
                                            - optimal_cost_factor), current_cost_factor),
                   reduction_pct |-> Ratio((current_cost_factor - optimal_cost_factor)
                                              * 100, current_cost_factor) ] ]

\* ModelSelector.estimate_cost_savings; the quotients are kept as quotients
\* (20 * 0.5 is 10.0)
estimate_cost_savings(current_usage) ==
    LET sonnet_pct == GetOr(current_usage.sonnet_pct, 50)
        haiku_pct == GetOr(current_usage.haiku_pct, 50)
        monthly_cost == GetOr(current_usage.monthly_cost_usd, 500)
        optimal_haiku_pct == 70 + (20 \div 2)
        optimal_sonnet_pct == 10 + (20 \div 2)
        current_cost_factor == (sonnet_pct * 4) + (haiku_pct * 1)
        optimal_cost_factor == (optimal_sonnet_pct * 4) + (optimal_haiku_pct * 1)
    IN  IF current_cost_factor = 0 THEN Raised("ZeroDivisionError")
        ELSE [ raised |-> "",
               current |-> Usage(sonnet_pct, haiku_pct, monthly_cost),
               optimized |-> Usage(optimal_sonnet_pct, optimal_haiku_pct,
                                   Ratio(monthly_cost * optimal_cost_factor,
                                         current_cost_factor)),
               savings |->
                 [ monthly_usd |-> Ratio(monthly_cost * (current_cost_factor
                                            - optimal_cost_factor), current_cost_factor),
                   annual_usd |-> Ratio(12 * monthly_cost * (current_cost_factor
                                            - optimal_cost_factor), current_cost_factor),
                   reduction_pct |-> Ratio((current_cost_factor - optimal_cost_factor)
                                              * 100, current_cost_factor) ] ]

\* the distributions given to estimate_cost_savings: every split of 100 with
\* three baselines in USD, the dict without keys, and the split of a month
\* without cost
Usages ==
    { Usage(Some(s), Some(100 - s), Some(c)) : s \in 0..100, c \in {0, 500, 1200} }
        \cup { Usage(None, None, None), Usage(Some(0), Some(0), Some(0)) }

(***************************************************************************)
(* agent_metrics.py (PerformanceTracker): track_agent_performance          *)
(***************************************************************************)
\* the capacity of an agent's invocation history
HISTORY_CAPACITY == 100
\* the days of the window view, the entries it must hold for a trend to be
\* computed, and the margin between the two halves in percentage points
WINDOW_DAYS == 30
TREND_MIN_ENTRIES == 10
TREND_MARGIN == 5

\* append to the bounded history, keeping the oldest entries
AppendBounded_KeepOldest(history, entry) ==
    IF Len(history) >= HISTORY_CAPACITY THEN history ELSE Append(history, entry)

\* append to the bounded history; beyond the capacity the oldest is evicted
AppendBounded(history, entry) ==
    LET appended == Append(history, entry)
    IN  IF Len(appended) > HISTORY_CAPACITY
        THEN SubSeq(appended, Len(appended) - HISTORY_CAPACITY + 1, Len(appended))
        ELSE appended

\* the 30-day window view: the history filtered on timestamp
Window(history, today) ==
    SelectSeq(history, LAMBDA e : today - e.day <= WINDOW_DAYS)

\* the number of successes among entries from..to of a list
Successes(entries, from, to) ==
    Cardinality({i \in from..to : entries[i].success})

\* Trend that compares the halves of any window of at least nine entries
Trend_FromNine(window) ==
    LET n == Len(window)
        mid == n \div 2
        first == Successes(window, 1, mid)
        second == Successes(window, mid + 1, n)
        \* (second / (n - mid) - first / mid) * 100, times mid * (n - mid)
        difference == 100 * ((second * mid) - (first * (n - mid)))
    IN  IF n < TREND_MIN_ENTRIES - 1 THEN "stable"
        ELSE IF difference > TREND_MARGIN * mid * (n - mid) THEN "improving"
        ELSE IF difference < -(TREND_MARGIN * mid * (n - mid)) THEN "declining"
        ELSE "stable"

\* the trend of the window: the success rate of its second half against
\* that of its first half, once it holds ten entries
Trend(window) ==
    LET n == Len(window)
        mid == n \div 2
        first == Successes(window, 1, mid)
        second == Successes(window, mid + 1, n)
        \* (second / (n - mid) - first / mid) * 100, times mid * (n - mid)
        difference == 100 * ((second * mid) - (first * (n - mid)))
    IN  IF n < TREND_MIN_ENTRIES THEN "stable"
        ELSE IF difference > TREND_MARGIN * mid * (n - mid) THEN "improving"
        ELSE IF difference < -(TREND_MARGIN * mid * (n - mid)) THEN "declining"
        ELSE "stable"

\* a profile on first use
NewProfile ==
    [ invocations |-> 0, successes |-> 0, failures |-> 0, history |-> <<>>,
      trend |-> "stable" ]

\* track_agent_performance(agent_name, success, ...) on the agent's profile:
\* the counters, the bounded history, then the trend of the window
RecordInvocation(profile, success, today) ==
    LET invocations == profile.invocations + 1
        history == AppendBounded(profile.history,
                                 [ invocation |-> invocations, success |-> success,
                                   day |-> today ])
    IN  [ invocations |-> invocations,
          successes |-> profile.successes + (IF success THEN 1 ELSE 0),
          failures |-> profile.failures + (IF success THEN 0 ELSE 1),
          history |-> history,
          trend |-> Trend(Window(history, today)) ]

\* how the outcomes of a run of invocations are drawn: one fixed outcome,
\* alternating outcomes, or any outcome at every invocation
Plans == {"pass", "fail", "alternate", "any"}

\* the outcomes the next invocation can have
Outcomes(plan, invocations) ==
    CASE plan = "pass" -> {TRUE}
      [] plan = "fail" -> {FALSE}
      [] plan = "alternate" -> {invocations % 2 = 0}
      [] OTHER -> BOOLEAN

(***************************************************************************)
(* dashboard.py                                                            *)
(***************************************************************************)
\* the sections of the full view, in the order main() calls them
Sections == <<"cost", "performance", "recommendations">>

\* The try block of display_recommendations on the summary it read:
\* "error" when estimate_cost_savings divides by a cost factor of 0 (caught
\* by `except Exception: pass`), "recommended" when reduction_pct > 10,
\* "none" otherwise. The two percentages of the summary are quotients over
\* the same denominator, the month's total (1 when the total is not
\* positive), or absent for a month without entries (defaults 50 / 50).
SavingsSection(summary) ==
    LET has == "sonnet_pct" \in DOMAIN summary
        den == IF has THEN summary.sonnet_pct.den ELSE 1
        factor == IF has
                  THEN (summary.sonnet_pct.num * 4) + (summary.haiku_pct.num * 1)
                  ELSE (50 * 4) + (50 * 1)
    IN  IF factor = 0 THEN "error"
        ELSE IF factor < 0 \/ 9 * factor > 1600 * den THEN "recommended"
        ELSE "none"

\* main() without arguments, on the documents its reads load: d1 by
\* display_cost_summary, d2 by get_cost_suggestions, d3 by the summary of the
\* savings estimate. performance_raises and recommendations_raise say
\* whether the reads of agent_metrics raise.
FullView(d1, d2, d3, now, performance_raises, recommendations_raise, model_selection) ==
    LET failed == (IF ~HasStructure(d1) THEN {"cost"} ELSE {})
                    \cup (IF performance_raises THEN {"performance"} ELSE {})
                    \cup (IF ~HasStructure(d2) \/ recommendations_raise
                          THEN {"recommendations"} ELSE {})
        savings_read == IF ~model_selection THEN "unavailable"
                        ELSE IF ~HasStructure(d3) THEN "error"
                        ELSE SavingsSection(MonthSummary(d3, now))
    IN  IF ~HasStructure(d1)
        THEN [ outcome |-> "aborted", raised |-> "KeyError", sections |-> <<>>,
               failed |-> {"cost"}, savings |-> "not reached" ]
        ELSE IF performance_raises
        THEN [ outcome |-> "aborted", raised |-> "Exception", sections |-> <<"cost">>,
               failed |-> failed \ {"recommendations"}, savings |-> "not reached" ]
        ELSE IF ~HasStructure(d2)
        THEN [ outcome |-> "aborted", raised |-> "KeyError",
               sections |-> <<"cost", "performance">>,
               failed |-> failed, savings |-> "not reached" ]
        ELSE IF recommendations_raise
        THEN [ outcome |-> "aborted", raised |-> "Exception",
               sections |-> <<"cost", "performance">>,
               failed |-> failed, savings |-> "not reached" ]
        ELSE [ outcome |-> "rendered", raised |-> "",
               sections |-> <<"cost", "performance", "recommendations">>,
               failed |-> {}, savings |-> savings_read ]

(***************************************************************************)
(* post-tool-use.py                                                        *)
(***************************************************************************)
\* 5 minutes between suggestions, in seconds
SUGGESTION_COOLDOWN == 300

\* the tool events the hook is run for
ToolNames == {"Edit", "Write", "MultiEdit", "Bash", "Task"}

\* get_task_type(), decided by the task file
TaskTypes == {"general", "database", "frontend"}

\* track_edit: the new value of _progress_counter, which is also returned
track_edit(_progress_counter) == _progress_counter + 1

\* should_suggest_validation: what it returns and the new _last_suggestion_time
should_suggest_validation(edit_count, _last_suggestion_time, now) ==
    IF edit_count % 10 = 0 /\ (now - _last_suggestion_time) > SUGGESTION_COOLDOWN
    THEN [suggest |-> TRUE, _last_suggestion_time |-> now]
    ELSE [suggest |-> FALSE, _last_suggestion_time |-> _last_suggestion_time]

\* One run of the script for one tool event: the process starts with
\* _progress_counter = 0 and _last_suggestion_time = 0 (lines 27-28) and ends
\* at sys.exit(0). The result is the kinds of suggestion it prints.
HookSuggestions(tool_name, task_type, cd_command, monitoring, now) ==
    LET _progress_counter == 0
        _last_suggestion_time == 0
        is_edit == tool_name \in {"Edit", "Write", "MultiEdit"}
        edit_count == track_edit(_progress_counter)
    IN  (IF is_edit /\ should_suggest_validation(edit_count, _last_suggestion_time,
                                                 now).suggest
         THEN {"progress_check"} ELSE {})
        \cup (IF /\ is_edit /\ tool_name \in {"Write", "Edit"} /\ edit_count % 5 = 0
                 /\ task_type \in {"database", "frontend", "integration"}
              THEN {task_type} ELSE {})
        \cup (IF tool_name = "Bash" /\ cd_command THEN {"working_directory"} ELSE {})
        \cup (IF tool_name = "Task" /\ monitoring THEN {"agent_invoked"} ELSE {})

ScorerInit == work \in Works /\ analysis = None

\* the scorer before any task is given to it
ScorerIdle == work = None /\ analysis = None

SelectorInit ==
    /\ config \in { _load_config(f) : f \in ConfigFiles }
    /\ request \in Requests
    /\ decision = None

\* a selector with the default configuration and no request
SelectorIdle == config = default_config /\ request = None /\ decision = None

\* the processes (hook runs, CLI runs) that use the ledger file
Procs == {"p1", "p2"}

IdleProc == [pc |-> "idle", args |-> [agent_name |-> ""], data |-> [kind |-> "none"]]

LedgerInit ==
    /\ file \in {MissingFile, UnparseableFile, JsonFile(BadStructure)}
    /\ clock = [month |-> 1, day |-> 1, elapsed |-> 0]
    /\ procs = [p \in Procs |-> IdleProc]
    /\ calls = 0
    /\ returned = [op |-> "none"]

\* a ledger nobody uses
LedgerIdle ==
    /\ file = MissingFile
    /\ clock = [month |-> 1, day |-> 1, elapsed |-> 0]
    /\ procs = [p \in Procs |-> IdleProc]
    /\ calls = 0
    /\ returned = [op |-> "none"]

CategoryInit == lookup \in { [agent_name |-> a, category |-> None] : a \in AgentNames }

\* no get_agent_category call of its own
CategoryIdle == lookup = [agent_name |-> "", category |-> None]

\* a caller runs get_agent_category on an identifier
Categorize ==
    /\ lookup.category = None
    /\ lookup' = [lookup EXCEPT !.category = Some(get_agent_category(lookup.agent_name))]
    /\ UNCHANGED <<scorerVars, selectorVars, ledgerVars, savingsVars, hookVars, viewVars, metricsVars>>

SavingsInit == savings \in { [current_usage |-> u, result |-> None] : u \in Usages }

\* no estimate_cost_savings call
SavingsIdle == savings = [current_usage |-> None, result |-> None]

\* a caller runs estimate_cost_savings on a distribution
Estimate ==
    /\ savings.current_usage # None
    /\ savings.result = None
    /\ savings' = [savings EXCEPT
                     !.result = Some(estimate_cost_savings(savings.current_usage))]
    /\ UNCHANGED <<scorerVars, selectorVars, ledgerVars, categoryVars, hookVars, viewVars, metricsVars>>

\* time.time() is far above the cooldown; checks holds the times at which a
\* Progress Check was printed, edits counts the Edit/Write/MultiEdit events
HookInit ==
    hook = [ events |-> 0, edits |-> 0, now |-> 1000, tool_name |-> "",
             suggestions |-> {}, checks |-> <<>> ]

\* no tool event
HookIdle ==
    hook = [ events |-> 0, edits |-> 0, now |-> 0, tool_name |-> "",
             suggestions |-> {}, checks |-> <<>> ]

\* the assistant uses a tool some time after the last one and the hook runs
HookRun ==
    /\ hook.events < MaxEvents
    /\ \E tool_name \in ToolNames, task_type \in TaskTypes, cd_command \in BOOLEAN,
          monitoring \in BOOLEAN, elapsed \in {20, 400} :
          LET now == hook.now + elapsed
              out == HookSuggestions(tool_name, task_type, cd_command, monitoring, now)
          IN  hook' = [ events |-> hook.events + 1,
                        edits |-> hook.edits
                                    + (IF tool_name \in {"Edit", "Write", "MultiEdit"}
                                       THEN 1 ELSE 0),
                        now |-> now,
                        tool_name |-> tool_name,
                        suggestions |-> out,
                        checks |-> IF "progress_check" \in out
                                   THEN Append(hook.checks, now) ELSE hook.checks ]
    /\ UNCHANGED <<scorerVars, selectorVars, ledgerVars, categoryVars, savingsVars, viewVars, metricsVars>>

\* the dashboard has not been run
ViewIdle ==
    view = [ outcome |-> "none", raised |-> "", sections |-> <<>>, failed |-> {},
               savings |-> "not reached" ]

MetricsInit ==
    tracker \in { [profile |-> NewProfile, today |-> 0, plan |-> p] : p \in Plans }

\* no agent has been tracked
MetricsIdle == tracker = [profile |-> NewProfile, today |-> 0, plan |-> ""]

\* the hook reports one completed invocation of the agent
TrackPerformance ==
    /\ tracker.plan # ""
    /\ tracker.profile.invocations
          < (IF tracker.plan = "any" THEN MaxFreeRecords ELSE MaxRecords)
    /\ \E success \in Outcomes(tracker.plan, tracker.profile.invocations) :
          tracker' = [tracker EXCEPT
                        !.profile = RecordInvocation(tracker.profile, success,
                                                     tracker.today)]
    /\ UNCHANGED <<scorerVars, selectorVars, ledgerVars, categoryVars, savingsVars,
                   hookVars, viewVars>>

\* the agent is not used for more than the days of the window, once
Later ==
    /\ tracker.plan # ""
    /\ tracker.today = 0
    /\ tracker' = [tracker EXCEPT !.today = WINDOW_DAYS + 10]
    /\ UNCHANGED <<scorerVars, selectorVars, ledgerVars, categoryVars, savingsVars,
                   hookVars, viewVars>>

\* the caller runs calculate_task_complexity on its task description
Score ==
    /\ analysis = None
    /\ analysis' = Some(calculate_task_complexity(work))
    /\ UNCHANGED <<work, selectorVars, ledgerVars, categoryVars, savingsVars, hookVars, viewVars, metricsVars>>

\* the caller runs select_model on its request
Select ==
    /\ request # None
    /\ decision = None
    /\ decision' = Some(select_model(config, request))
    /\ UNCHANGED <<config, request, scorerVars, ledgerVars, categoryVars, savingsVars, hookVars, viewVars, metricsVars>>

\* whether a read of the file can fail although it holds JSON
ReadErrors == IF file.kind = "json" THEN BOOLEAN ELSE {FALSE}

\* track_agent_invocation up to the return of load_cost_tracking
TrackLoad(p) ==
    /\ procs[p].pc = "idle"
    /\ calls < MaxCalls
    /\ \E report \in Reports, readError \in ReadErrors :
          procs' = [procs EXCEPT ![p] =
                      [ pc |-> "loaded",
                        args |-> report,
                        data |-> load_cost_tracking(file, clock, readError) ]]
    /\ calls' = calls + 1
    /\ UNCHANGED <<file, clock, returned, scorerVars, selectorVars, categoryVars, savingsVars, hookVars, viewVars, metricsVars>>

\* the rest of track_agent_invocation: the updates, save_cost_tracking, the return
TrackSave(p) ==
    /\ procs[p].pc = "loaded"
    /\ IF HasStructure(procs[p].data)
       THEN /\ file' = save_cost_tracking(TrackUpdate(procs[p].data, procs[p].args, clock))
            /\ returned' = [ op |-> "track", raised |-> "",
                             cost |-> calculate_cost(procs[p].args.model,
                                                     procs[p].args.tokens_input,
                                                     procs[p].args.tokens_output) ]
       ELSE /\ file' = file
            /\ returned' = [op |-> "track", raised |-> "KeyError"]
    /\ procs' = [procs EXCEPT ![p] = IdleProc]
    /\ UNCHANGED <<clock, calls, scorerVars, selectorVars, categoryVars, savingsVars, hookVars, viewVars, metricsVars>>

\* Summary that writes the document it loaded back to the file
Summary_SavesLoaded(p) ==
    /\ procs[p].pc = "idle"
    /\ \E readError \in ReadErrors :
          LET d == load_cost_tracking(file, clock, readError)
          IN  /\ returned' =
                   IF HasStructure(d)
                   THEN [ op |-> "summary", raised |-> "",
                          summary |-> MonthSummary(d, clock) ]
                   ELSE [op |-> "summary", raised |-> "KeyError"]
              /\ file' = IF HasStructure(d) THEN save_cost_tracking(d) ELSE file
    /\ UNCHANGED <<clock, procs, calls, scorerVars, selectorVars, categoryVars, savingsVars, hookVars, viewVars, metricsVars>>

\* get_current_month_summary, one read of the file
Summary(p) ==
    /\ procs[p].pc = "idle"
    /\ \E readError \in ReadErrors :
          LET d == load_cost_tracking(file, clock, readError)
          IN  returned' =
                IF HasStructure(d)
                THEN [ op |-> "summary", raised |-> "",
                       summary |-> MonthSummary(d, clock) ]
                ELSE [op |-> "summary", raised |-> "KeyError"]
    /\ UNCHANGED <<file, clock, procs, calls, scorerVars, selectorVars, categoryVars, savingsVars, hookVars, viewVars, metricsVars>>

\* get_optimization_suggestions, one read of the file
Suggestions(p) ==
    /\ procs[p].pc = "idle"
    /\ \E readError \in ReadErrors :
          LET d == load_cost_tracking(file, clock, readError)
          IN  returned' =
                IF HasStructure(d)
                THEN [ op |-> "suggestions", raised |-> "",
                       suggestions |-> OptimizationSuggestions(d, clock) ]
                ELSE [op |-> "suggestions", raised |-> "KeyError"]
    /\ UNCHANGED <<file, clock, procs, calls, scorerVars, selectorVars, categoryVars, savingsVars, hookVars, viewVars, metricsVars>>

\* midnight inside a month
NextDay ==
    /\ clock.elapsed < MaxDays
    /\ clock' = [month |-> clock.month, day |-> clock.day + 1, elapsed |-> clock.elapsed + 1]
    /\ UNCHANGED <<file, procs, calls, returned, scorerVars, selectorVars, categoryVars, savingsVars, hookVars, viewVars, metricsVars>>

\* midnight at the end of a month
NextMonth ==
    /\ clock.elapsed < MaxDays
    /\ clock' = [month |-> clock.month + 1, day |-> 1, elapsed |-> clock.elapsed + 1]
    /\ UNCHANGED <<file, procs, calls, returned, scorerVars, selectorVars, categoryVars, savingsVars, hookVars, viewVars, metricsVars>>

\* python dashboard.py: the full view, three reads of the ledger file
Dashboard ==
    /\ \E e1 \in ReadErrors, e2 \in ReadErrors, e3 \in ReadErrors,
          performance_raises \in BOOLEAN, recommendations_raise \in BOOLEAN,
          model_selection \in BOOLEAN :
          view' = FullView(load_cost_tracking(file, clock, e1),
                             load_cost_tracking(file, clock, e2),
                             load_cost_tracking(file, clock, e3),
                             clock, performance_raises, recommendations_raise,
                             model_selection)
    /\ UNCHANGED <<scorerVars, selectorVars, ledgerVars, categoryVars, savingsVars,
                   hookVars, metricsVars>>

LedgerNext ==
    \/ \E p \in Procs : TrackLoad(p)
    \/ \E p \in Procs : TrackSave(p)
    \/ \E p \in Procs : Summary(p)
    \/ \E p \in Procs : Suggestions(p)
    \/ NextDay
    \/ NextMonth

\* one task given to the scorer; the selector and the ledger are not used
ScorerStart == ScorerInit /\ SelectorIdle /\ LedgerIdle /\ CategoryIdle /\ SavingsIdle /\ HookIdle /\ ViewIdle /\ MetricsIdle

SpecScorer == ScorerStart /\ [][Score]_vars

\* one selector and one request; the scorer and the ledger are not used
SelectorStart == ScorerIdle /\ SelectorInit /\ LedgerIdle /\ CategoryIdle /\ SavingsIdle /\ HookIdle /\ ViewIdle /\ MetricsIdle

SpecSelector == SelectorStart /\ [][Select]_vars

\* the ledger file before the first call; the scorer and the selector are not used
LedgerStart == ScorerIdle /\ SelectorIdle /\ LedgerInit /\ CategoryIdle /\ SavingsIdle /\ HookIdle /\ ViewIdle /\ MetricsIdle

SpecLedger == LedgerStart /\ [][LedgerNext]_vars

\* one identifier given to get_agent_category; nothing else is used
CategoryStart == ScorerIdle /\ SelectorIdle /\ LedgerIdle /\ CategoryInit /\ SavingsIdle /\ HookIdle /\ ViewIdle /\ MetricsIdle

SpecCategory == CategoryStart /\ [][Categorize]_vars

\* one distribution given to estimate_cost_savings; nothing else is used
SavingsStart == ScorerIdle /\ SelectorIdle /\ LedgerIdle /\ CategoryIdle /\ SavingsInit /\ HookIdle /\ ViewIdle /\ MetricsIdle

SpecSavings == SavingsStart /\ [][Estimate]_vars

\* a session of tool events; nothing else is used
HookStart == ScorerIdle /\ SelectorIdle /\ LedgerIdle /\ CategoryIdle /\ SavingsIdle /\ ViewIdle /\ MetricsIdle
                /\ HookInit

SpecHook == HookStart /\ [][HookRun]_vars

\* one agent's invocations reported to the performance tracker
MetricsNext ==
    \/ TrackPerformance
    \/ Later

MetricsStart == ScorerIdle /\ SelectorIdle /\ LedgerIdle /\ CategoryIdle /\ SavingsIdle
                   /\ HookIdle /\ ViewIdle /\ MetricsInit

SpecMetrics == MetricsStart /\ [][MetricsNext]_vars

\* one process alone: every call returns before the next begins
SoloNext ==
    \/ TrackLoad("p1")
    \/ TrackSave("p1")
    \/ Summary("p1")
    \/ Suggestions("p1")
    \/ NextDay
    \/ NextMonth

SpecLedgerSolo == LedgerStart /\ [][SoloNext]_vars

\* one process that records invocations and runs the dashboard
DashboardNext ==
    \/ SoloNext
    \/ Dashboard

SpecDashboard == LedgerStart /\ [][DashboardNext]_vars

(***************************************************************************)
(* Properties of the scorer                                                *)
(***************************************************************************)
Breakdown == analysis[1].breakdown

SubScoreSum ==
    Breakdown.file_complexity + Breakdown.code_complexity
        + Breakdown.domain_complexity + Breakdown.risk_factors

\* C1: the complexity_score returned by calculate_task_complexity is an
\* integer between 0 and 100, also when the four sub-scores add up to more
\* than 100 or to less than 0.
C1_ScoreInRange ==
    analysis # None => analysis[1].complexity_score \in 0..100

\* a call whose sub-scores add up to more than 100 has returned
C1_Witness ==
    analysis # None /\ SubScoreSum > 100 /\ analysis[1].complexity_score = 100

\* a call whose sub-scores add up to less than 0 has returned
C1_WitnessNegative ==
    analysis # None /\ SubScoreSum < 0 /\ analysis[1].complexity_score = 0

\* C2: every sub-score of the breakdown is inside its declared range:
\* file 0..40, code 0..30, domain 0..25, risk 0..35.
C2_SubScoresInRange ==
    analysis # None =>
        /\ Breakdown.file_complexity \in 0..40
        /\ Breakdown.code_complexity \in 0..30
        /\ Breakdown.domain_complexity \in 0..25
        /\ Breakdown.risk_factors \in 0..35

\* C13: model_recommendation follows the documented bands: a final score
\* of 0-30 gives haiku-4.5, 31-60 haiku-with-sonnet-review, 61-100 sonnet-4.5.
C13_RecommendationBands ==
    analysis # None =>
        LET final_score == analysis[1].complexity_score
            recommendation == analysis[1].model_recommendation
        IN  /\ final_score \in 0..30 => recommendation = "haiku-4.5"
            /\ final_score \in 31..60 => recommendation = "haiku-with-sonnet-review"
            /\ final_score \in 61..100 => recommendation = "sonnet-4.5"

\* the bonus of the destructive-SQL patterns when it is given once per diff
SingleSqlBonus == IF CriticalPatternsOf[work.git_diff] # {} THEN 15 ELSE 0

\* C16: a diff that matches one or more critical SQL patterns adds 15 to
\* the code sub-score before the clamp to 30, however many patterns match.
C16_SingleSqlBonus ==
    analysis # None =>
        Breakdown.code_complexity =
            Min(LinesChangedScore(work.lines_changed)
                    + FunctionsAddedScore(work.functions_added) + SingleSqlBonus, 30)

\* the input of the spec's example: 25 changed files with a GraphQL schema
\* file among them, "migration" in the description, production affected, no
\* tests, everything else at its default
ExampleInput ==
    /\ work.files_changed # None
    /\ Len(work.files_changed[1]) = 25
    /\ work.affects_production /\ ~work.has_tests /\ ~work.breaking_change
    /\ work.git_diff = None /\ work.lines_changed = 0 /\ work.functions_added = 0
    /\ \E i \in 1..25 : EndsWith(work.files_changed[1][i], ".graphql")
    /\ Contains("migration", Lower(work.task_description))

\* C17 as stated: for the example input the total is exactly 100.
C17_ExampleIsHundred ==
    (analysis # None /\ ExampleInput) => analysis[1].complexity_score = 100

\* C17 amended: for the example input the code sub-score is 0, the risk
\* sub-score 30, the file sub-score at most 40 and the domain sub-score at
\* most 25; the total is their sum, unclamped, and at most 95.
C17_ExampleBelowClamp ==
    (analysis # None /\ ExampleInput) =>
        /\ Breakdown.code_complexity = 0
        /\ Breakdown.risk_factors = 30
        /\ Breakdown.file_complexity <= 40
        /\ Breakdown.domain_complexity <= 25
        /\ analysis[1].complexity_score = SubScoreSum
        /\ analysis[1].complexity_score <= 95

\* the example with 24 source files and a schema file scored 80
C17_Witness ==
    /\ analysis # None /\ ExampleInput
    /\ work.files_changed[1] = Repeat("src/app.ts", 24) \o <<"api/schema.graphql">>
    /\ analysis[1].complexity_score = 80

\* the file sub-score of a file list, as calculate_task_complexity takes it
FileScoreOf(files_changed) ==
    IF files_changed # None /\ files_changed[1] # <<>>
    THEN analyze_file_changes(files_changed[1]) ELSE 0

\* C18 as stated: an input that differs from the scored one in a scored
\* field gets a different value of the corresponding sub-score.
C18_Sensitivity ==
    analysis # None =>
        /\ \A l \in LinesChangedValues \ {work.lines_changed} :
              analyze_code_changes(work.git_diff, l, work.functions_added)
                 # Breakdown.code_complexity
        /\ \A fn \in FunctionsAddedValues \ {work.functions_added} :
              analyze_code_changes(work.git_diff, work.lines_changed, fn)
                 # Breakdown.code_complexity
        /\ \A d \in Diffs \ {work.git_diff} :
              analyze_code_changes(d, work.lines_changed, work.functions_added)
                 # Breakdown.code_complexity
        /\ analyze_risk_factors(~work.affects_production, work.breaking_change, work.has_tests)
              # Breakdown.risk_factors
        /\ analyze_risk_factors(work.affects_production, ~work.breaking_change, work.has_tests)
              # Breakdown.risk_factors
        /\ analyze_risk_factors(work.affects_production, work.breaking_change, ~work.has_tests)
              # Breakdown.risk_factors
        /\ \A t \in TaskTexts \ {<<work.task_name, work.task_description>>} :
              DomainScoreOf[t] # Breakdown.domain_complexity
        /\ \A f \in {Some(fl) : fl \in FileLists} \ {work.files_changed} :
              FileScoreOf(f) # Breakdown.file_complexity

\* C18 amended: more lines changed, more functions added or one more risk
\* factor (production affected, breaking change, tests missing) never lowers
\* the corresponding sub-score.
C18_Monotone ==
    analysis # None =>
        /\ \A l \in LinesChangedValues :
              l > work.lines_changed =>
                 analyze_code_changes(work.git_diff, l, work.functions_added)
                    >= Breakdown.code_complexity
        /\ \A fn \in FunctionsAddedValues :
              fn > work.functions_added =>
                 analyze_code_changes(work.git_diff, work.lines_changed, fn)
                    >= Breakdown.code_complexity
        /\ analyze_risk_factors(TRUE, work.breaking_change, work.has_tests)
              >= Breakdown.risk_factors
        /\ analyze_risk_factors(work.affects_production, TRUE, work.has_tests)
              >= Breakdown.risk_factors
        /\ analyze_risk_factors(work.affects_production, work.breaking_change, FALSE)
              >= Breakdown.risk_factors

\* a task with both other risk factors was scored 35 for risk, the value it
\* also gets without tests; and more lines would raise its code sub-score
C18_Witness ==
    /\ analysis # None
    /\ work.affects_production /\ work.breaking_change /\ work.has_tests
    /\ Breakdown.risk_factors = 35
    /\ analyze_risk_factors(TRUE, TRUE, FALSE) = 35
    /\ work.lines_changed = 0
    /\ analyze_code_changes(work.git_diff, 150, work.functions_added)
          > Breakdown.code_complexity

(***************************************************************************)
(* Properties of the selector                                              *)
(***************************************************************************)
RoutingEnabled == config.enabled /\ config.auto_model_selection

\* C10: with routing enabled and a user override supplied (a non-empty
\* model name), select_model returns the override with selection_method
\* user_override, whatever the task text and the score.
C10_UserOverrideWins ==
    (decision # None /\ RoutingEnabled /\ Truthy(request.user_override)) =>
        /\ HasKey(decision[1], "model")
        /\ decision[1].model = request.user_override[1]
        /\ decision[1].selection_method = "user_override"

\* the override "low-cost" was honoured for a task whose text holds an
\* always-sonnet keyword and whose score is 95
C10_Witness ==
    /\ decision # None /\ RoutingEnabled
    /\ request.user_override = Some("low-cost")
    /\ request.complexity_analysis = [complexity_score |-> 95]
    /\ check_overrides(config, request.task_name, request.task_description) = Some("sonnet-4.5")
    /\ decision[1].model = "low-cost"

\* C11: with routing disabled (enabled false or auto_model_selection false)
\* select_model returns sonnet-4.5 with selection_method disabled, whatever
\* the user override and the task text.
C11_DisabledIsSonnet ==
    (decision # None /\ ~RoutingEnabled) =>
        /\ HasKey(decision[1], "model")
        /\ decision[1].model = "sonnet-4.5"
        /\ decision[1].selection_method = "disabled"

\* a disabled selector answered a call that supplied the override haiku-4.5
\* and whose text holds an always-haiku keyword
C11_Witness ==
    /\ decision # None /\ ~RoutingEnabled
    /\ request.user_override = Some("haiku-4.5")
    /\ FirstKeyword(default_config.overrides.always_haiku,
                    Lower(request.task_name \o " " \o request.task_description)) > 0
    /\ FirstKeyword(default_config.overrides.always_sonnet,
                    Lower(request.task_name \o " " \o request.task_description)) = 0
    /\ decision[1].model = "sonnet-4.5"

\* the thresholds are both configured, with haiku_max below sonnet_min
ThresholdsInOrder(cfg) ==
    /\ HasKey(cfg.thresholds, "haiku_max") /\ HasKey(cfg.thresholds, "sonnet_min")
    /\ cfg.thresholds.haiku_max < cfg.thresholds.sonnet_min

\* the call reaches the complexity-based branch: routing enabled, no user
\* override, no override keyword in the text, a score in the analysis
ReachesThresholds ==
    /\ decision # None /\ RoutingEnabled
    /\ ~Truthy(request.user_override)
    /\ ~CheckOverridesRaises(config, request.task_name, request.task_description)
    /\ check_overrides(config, request.task_name, request.task_description) = None
    /\ HasKey(request.complexity_analysis, "complexity_score")

Tiers == {"haiku-4.5", "haiku-with-sonnet-review", "sonnet-4.5"}

\* C14: the model select_model returns is one of the three tiers, on every
\* branch.
C14_ModelIsATier ==
    (decision # None /\ HasKey(decision[1], "model")) => decision[1].model \in Tiers

\* a user configuration whose thresholds are partial or inverted, or whose
\* overrides lack a keyword list
InvalidUserConfig(cf) ==
    /\ cf.exists /\ cf.parses
    /\ \/ /\ HasKey(cf.cost, "thresholds")
          /\ ~ThresholdsInOrder(cf.cost)
       \/ /\ HasKey(cf.cost, "overrides")
          /\ \/ ~HasKey(cf.cost.overrides, "always_sonnet")
             \/ ~HasKey(cf.cost.overrides, "always_haiku")

\* C15: a selector built from an invalid user configuration works with the
\* default thresholds and keyword lists, and select_model returns a decision
\* without raising.
C15_InvalidConfigFallsBack ==
    decision # None =>
        /\ \A cf \in ConfigFiles :
              (InvalidUserConfig(cf) /\ config = _load_config(cf)) =>
                  /\ config.thresholds = default_config.thresholds
                  /\ config.overrides = default_config.overrides
        /\ ~HasKey(decision[1], "raised")

(***************************************************************************)
(* Properties of the ledger                                                *)
(***************************************************************************)
\* the file holds a ledger document
Persisted == file.kind = "json" /\ HasStructure(file.data)

DaysOfMonth(d, m) == {x \in DOMAIN d.daily : MonthOfDate(x) = m}

RECURSIVE SumCosts(_)
\* the sum of cost_usd over a list of invocation entries
SumCosts(entries) ==
    IF entries = <<>> THEN 0 ELSE Head(entries).cost_usd + SumCosts(Tail(entries))

RECURSIVE SumEntryCosts(_, _)
\* the sum of cost_usd over the invocation entries of a set of days
SumEntryCosts(daily, days) ==
    IF days = {} THEN 0
    ELSE LET x == CHOOSE y \in days : TRUE
         IN  SumCosts(daily[x].invocations) + SumEntryCosts(daily, days \ {x})

MonthIsSumOfDays(d, m) ==
    /\ d.monthly[m].total_cost_usd = SumOver(d.daily, DaysOfMonth(d, m), "total_cost_usd")
    /\ d.monthly[m].total_cost_usd = SumEntryCosts(d.daily, DaysOfMonth(d, m))

AlertsOfType(alerts, type) == {i \in 1..Len(alerts) : alerts[i].type = type}

\* C4: a month's alerts list never holds more than one budget_warning nor
\* more than one budget_exceeded alert, however many invocations are recorded.
C4_AtMostOneAlertPerKind ==
    Persisted =>
        \A m \in DOMAIN file.data.monthly :
            /\ Cardinality(AlertsOfType(file.data.monthly[m].alerts, "budget_warning")) <= 1
            /\ Cardinality(AlertsOfType(file.data.monthly[m].alerts, "budget_exceeded")) <= 1

\* the spend reached by all entries of a list but the last
SpendBeforeLast(entries) == SumCosts(SubSeq(entries, 1, Len(entries) - 1))

\* an invocation was recorded in a month that had already raised its
\* warning, and the month still holds one warning
C4_Witness ==
    /\ Persisted
    /\ \E x \in DOMAIN file.data.daily :
          LET entries == file.data.daily[x].invocations
              month == file.data.monthly[MonthOfDate(x)]
          IN  /\ Len(entries) >= 2
              /\ SpendBeforeLast(entries) * 100 >= ALERT_THRESHOLD_PCT * MONTHLY_BUDGET_CENTS
              /\ month.total_cost_usd < MONTHLY_BUDGET_CENTS
              /\ Cardinality(AlertsOfType(month.alerts, "budget_warning")) = 1

AtThreshold(d, m) ==
    d.monthly[m].total_cost_usd * 100 >= d.config.alert_threshold_pct * d.config.monthly_budget_usd

AtBudget(d, m) == d.monthly[m].total_cost_usd >= d.config.monthly_budget_usd

\* C5 as stated: whenever a month's spend is at or above the alert
\* threshold, that month's alerts hold a warning alert.
C5_WarningWheneverAtThreshold ==
    Persisted =>
        \A m \in DOMAIN file.data.monthly :
            AtThreshold(file.data, m) =>
                AlertsOfType(file.data.monthly[m].alerts, "budget_warning") # {}

\* C5 amended: a month whose spend is at or above the threshold and below
\* the budget holds a warning alert, and a month whose spend is at or above
\* the budget holds an exceeded alert.
C5_AlertOfTheBand ==
    Persisted =>
        \A m \in DOMAIN file.data.monthly :
            /\ (AtThreshold(file.data, m) /\ ~AtBudget(file.data, m)) =>
                  AlertsOfType(file.data.monthly[m].alerts, "budget_warning") # {}
            /\ AtBudget(file.data, m) =>
                  AlertsOfType(file.data.monthly[m].alerts, "budget_exceeded") # {}

\* a month went through the warning band and then over the budget: it
\* holds one alert of each kind
C5_Witness ==
    /\ Persisted
    /\ \E m \in DOMAIN file.data.monthly :
          /\ AtBudget(file.data, m)
          /\ Cardinality(AlertsOfType(file.data.monthly[m].alerts, "budget_warning")) = 1
          /\ Cardinality(AlertsOfType(file.data.monthly[m].alerts, "budget_exceeded")) = 1

\* the identifier has a namespace prefix that is a key of the category table
HasTablePrefix(id) == Colons(id) # {} /\ BeforeFirstColon(id) \in CategoryNames

\* the positions in the category table whose agent list holds the
\* identifier's short name
Listing(id) ==
    LET short == IF Colons(id) # {} THEN AfterLastColon(id) ELSE id
    IN  {i \in 1..Len(AGENT_CATEGORIES) : short \in AGENT_CATEGORIES[i].agents}

\* C19 as stated: the category is the prefix before the first ":" when the
\* category table has it, and "other" for every other identifier.
C19_PrefixOnly ==
    lookup.category # None =>
        lookup.category[1] = IF HasTablePrefix(lookup.agent_name)
                             THEN BeforeFirstColon(lookup.agent_name)
                             ELSE "other"

\* C19 amended: the category is the prefix when the table has it; otherwise
\* the first category of the table that lists the short name (the part
\* after the last ":"), and "other" only when no category lists it.
C19_PrefixThenShortName ==
    lookup.category # None =>
        LET id == lookup.agent_name
            result == lookup.category[1]
        IN  /\ HasTablePrefix(id) => result = BeforeFirstColon(id)
            /\ (~HasTablePrefix(id) /\ Listing(id) = {}) => result = "other"
            /\ (~HasTablePrefix(id) /\ Listing(id) # {}) =>
                  \E i \in Listing(id) :
                     /\ result = AGENT_CATEGORIES[i].category
                     /\ \A j \in Listing(id) : i <= j

\* an identifier with an unknown prefix and a short name that two
\* categories list got the first of them
C19_Witness ==
    /\ lookup.agent_name = "custom:debugger"
    /\ Cardinality(Listing(lookup.agent_name)) = 2
    /\ lookup.category = Some("quality-testing")

Loaded == {p \in Procs : procs[p].pc = "loaded"}

\* C6: the load -> mutate -> save cycles of two processes never overlap,
\* and a save builds on the content the file has when it is written, so that
\* the ledger reflects every completed invocation.
C6_AtMostOneWriter ==
    [][ /\ Cardinality({p \in Procs : procs'[p].pc = "loaded"}) <= 1
        /\ \A p \in Procs :
              (procs[p].pc = "loaded" /\ procs'[p].pc = "idle" /\ Persisted
                    /\ HasStructure(procs[p].data))
                 => file'.data.statistics.total_invocations
                       = file.data.statistics.total_invocations + 1 ]_vars

IsPrefix(a, b) == Len(a) <= Len(b) /\ SubSeq(b, 1, Len(a)) = a

\* every entry and every month total of d is still in e
Keeps(d, e) ==
    /\ \A x \in DOMAIN d.daily :
          /\ x \in DOMAIN e.daily
          /\ IsPrefix(d.daily[x].invocations, e.daily[x].invocations)
    /\ \A m \in DOMAIN d.monthly :
          /\ m \in DOMAIN e.monthly
          /\ e.monthly[m].total_cost_usd >= d.monthly[m].total_cost_usd

NonNegativeTokens(a) == a.tokens_input >= 0 /\ a.tokens_output >= 0

\* C7: a persisted invocation entry stays in every later persisted ledger
\* and no month's total drops, when an invocation with non-negative token
\* counts is recorded, whatever happened to the read at load.
C7_EntriesDurable ==
    [][ \A p \in Procs :
          (procs[p].pc = "loaded" /\ procs'[p].pc = "idle" /\ Persisted
                /\ NonNegativeTokens(procs[p].args))
             => Keeps(file.data, file'.data) ]_vars

\* C8: a call never raises to its caller, and track_agent_invocation
\* continues from a document that has the ledger's structure, whatever the
\* file held at load.
C8_CorruptStoreReinitialized ==
    /\ \A p \in Loaded : HasStructure(procs[p].data)
    /\ returned.op # "none" => returned.raised = ""

\* C9: a track_agent_invocation call with a negative token count reports
\* an error and leaves the persisted ledger as it was.
C9_NegativeTokensRejected ==
    [][ \A p \in Procs :
          (procs[p].pc = "loaded" /\ procs'[p].pc = "idle"
                /\ ~NonNegativeTokens(procs[p].args))
             => (file' = file /\ returned'.raised # "") ]_vars

\* C20: get_current_month_summary and get_optimization_suggestions leave the
\* file as it was, whatever it holds.
C20_ReadsDoNotWrite ==
    [][ (returned' # returned /\ returned'.op \in {"summary", "suggestions"})
           => file' = file ]_vars

\* get_optimization_suggestions returned while the file was missing, and the
\* file is still missing
C20_Witness ==
    /\ returned.op = "suggestions" /\ returned.raised = ""
    /\ file = MissingFile


\* the part is more than pct per cent of a positive total
ShareExceeds(part, total, pct) == total > 0 /\ part * 100 > pct * total

\* the last call was get_optimization_suggestions and the file still holds
\* the document it read
SuggestionsOfTheFile ==
    /\ returned.op = "suggestions" /\ returned.raised = ""
    /\ Persisted
    /\ returned.suggestions = OptimizationSuggestions(file.data, clock)

\* C21: the "cost" suggestion is in the list exactly when the Sonnet share of
\* the cost recorded in all months exceeds 40%, and the "usage" suggestions
\* are those of the categories whose cost exceeds 30% of the current month's
\* total.
C21_SuggestionsAtTheLimits ==
    SuggestionsOfTheFile =>
        LET d == file.data
            m == MonthKey(clock)
            months == DOMAIN d.monthly
            total_sonnet == SumOver(d.monthly, months, "sonnet_cost_usd")
            total_cost == SumOver(d.monthly, months, "total_cost_usd")
        IN  /\ (returned.suggestions.cost # None)
                  <=> ShareExceeds(total_sonnet, total_cost, 40)
            /\ returned.suggestions.usage =
                  IF m \in months
                  THEN { c \in DOMAIN d.monthly[m].by_agent_category :
                           ShareExceeds(d.monthly[m].by_agent_category[c],
                                        d.monthly[m].total_cost_usd, 30) }
                  ELSE {}

(***************************************************************************)
(* Properties of the savings projection                                    *)
(***************************************************************************)

\* a quotient with a positive denominator lies between lo and hi
RatioBetween(r, lo, hi) == lo * r.den <= r.num /\ r.num <= hi * r.den

\* C22: for 50% Sonnet, 50% Haiku and 500 USD a month the projection is
\* 20% Sonnet, 80% Haiku at a monthly cost between 250 and 300 USD, a
\* reduction of 40 to 50 per cent.
C22_DocumentedProjection ==
    (/\ savings.result # None
     /\ savings.current_usage = Usage(Some(50), Some(50), Some(500)))
        => LET r == savings.result[1]
           IN  /\ r.raised = ""
               /\ r.optimized.sonnet_pct = 20 /\ r.optimized.haiku_pct = 80
               /\ RatioBetween(r.optimized.monthly_cost_usd, 250, 300)
               /\ RatioBetween(r.savings.reduction_pct, 40, 50)

\* a distribution of non-negative percentages that sum to 100, with a
\* baseline that is not negative
IsDistribution(u) ==
    /\ u.sonnet_pct # None /\ u.haiku_pct # None /\ u.monthly_cost_usd # None
    /\ u.sonnet_pct[1] >= 0 /\ u.haiku_pct[1] >= 0
    /\ u.sonnet_pct[1] + u.haiku_pct[1] = 100
    /\ u.monthly_cost_usd[1] >= 0

\* C29 as stated: for every distribution the call returns a result whose
\* monthly saving and reduction are not negative.
C29_NeverAboveBaseline ==
    (savings.result # None /\ IsDistribution(savings.current_usage))
        => LET r == savings.result[1]
           IN  /\ r.raised = ""
               /\ r.savings.monthly_usd.num >= 0
               /\ r.savings.reduction_pct.num >= 0

\* C29, amended: the call returns a result for every distribution; the
\* monthly saving and the reduction are not negative when sonnet_pct is at
\* least 20, the Sonnet share of the optimal distribution, and the reduction
\* is negative when it is below.
C29_NotAboveBaselineFromTwenty ==
    (savings.result # None /\ IsDistribution(savings.current_usage))
        => LET r == savings.result[1]
               sonnet_pct == savings.current_usage.sonnet_pct[1]
           IN  /\ r.raised = ""
               /\ r.savings.monthly_usd.den > 0 /\ r.savings.reduction_pct.den > 0
               /\ sonnet_pct >= 20 => /\ r.savings.monthly_usd.num >= 0
                                      /\ r.savings.reduction_pct.num >= 0
               /\ sonnet_pct < 20 => /\ r.savings.monthly_usd.num <= 0
                                     /\ r.savings.reduction_pct.num < 0

\* the projection of the optimal distribution itself: the saving is zero
C29_Witness ==
    /\ savings.current_usage = Usage(Some(20), Some(80), Some(500))
    /\ savings.result # None
    /\ savings.result[1].raised = ""
    /\ savings.result[1].savings.monthly_usd.num = 0

(***************************************************************************)
(* The scorer's recommendation and the selector's choice                   *)
(***************************************************************************)

\* C26: with the default configuration, no user override and no override
\* rule matched by the task text, select_model chooses for a score the
\* model that calculate_task_complexity recommends for it.
C26_SelectorFollowsRecommendation ==
    (/\ decision # None
     /\ config = default_config
     /\ ~Truthy(request.user_override)
     /\ HasKey(request.complexity_analysis, "complexity_score")
     /\ HasKey(decision[1], "selection_method")
     /\ decision[1].selection_method = "complexity_based")
        => decision[1].model
              = ModelRecommendation(request.complexity_analysis.complexity_score)

(***************************************************************************)
(* Properties of the ledger's rollups                                      *)
(***************************************************************************)

\* the tier whose rates calculate_cost applies to a model name
RateTier(model) ==
    IF CostRatesOf[model] = MODEL_COSTS["sonnet-4.5"] THEN "sonnet" ELSE "haiku"

RECURSIVE SumTier(_, _, _)
\* the sum of a field over the entries of a list whose cost was computed at
\* the rates of a tier
SumTier(entries, tier, field) ==
    IF entries = <<>> THEN 0
    ELSE (IF RateTier(Head(entries).model) = tier THEN Head(entries)[field] ELSE 0)
            + SumTier(Tail(entries), tier, field)

\* C27: in every daily bucket the cost and the tokens of the entries priced
\* at a tier's rates are what that tier's rollups hold.
C27_RatesTierIsRollupTier ==
    Persisted =>
        \A x \in DOMAIN file.data.daily :
            \A tier \in {"sonnet", "haiku"} :
                LET day == file.data.daily[x]
                IN  /\ day[tier \o "_cost_usd"]
                          = SumTier(day.invocations, tier, "cost_usd")
                    /\ day[tier \o "_tokens_input"]
                          = SumTier(day.invocations, tier, "tokens_input")
                    /\ day[tier \o "_tokens_output"]
                          = SumTier(day.invocations, tier, "tokens_output")

RECURSIVE SumValues(_, _)
\* sum(d.values()) over the keys given
SumValues(d, keys) ==
    IF keys = {} THEN 0
    ELSE LET k == CHOOSE x \in keys : TRUE
         IN  d[k] + SumValues(d, keys \ {k})

RECURSIVE CountEntries(_, _)
\* the number of invocation entries in the daily lists of a set of days
CountEntries(daily, days) ==
    IF days = {} THEN 0
    ELSE LET x == CHOOSE y \in days : TRUE
         IN  Len(daily[x].invocations) + CountEntries(daily, days \ {x})

RECURSIVE CountByAgent(_, _)
\* the sum of by_agent invocations over a set of months
CountByAgent(monthly, months) ==
    IF months = {} THEN 0
    ELSE LET m == CHOOSE y \in months : TRUE
         IN  SumOver(monthly[m].by_agent, DOMAIN monthly[m].by_agent, "invocations")
                + CountByAgent(monthly, months \ {m})

C30_ProgressCheckEveryTenthEdit ==
    /\ (/\ hook.tool_name \in {"Edit", "Write", "MultiEdit"}
        /\ hook.edits > 0 /\ hook.edits % 10 = 0
        /\ \A i \in 1..Len(hook.checks) :
              hook.checks[i] = hook.now
                 \/ hook.now - hook.checks[i] > SUGGESTION_COOLDOWN)
           => "progress_check" \in hook.suggestions
    /\ \A i, j \in 1..Len(hook.checks) :
          i < j => hook.checks[j] - hook.checks[i] > SUGGESTION_COOLDOWN

(***************************************************************************)
(* Properties of the dashboard                                             *)
(***************************************************************************)

\* the elements of a sequence
Range(seq) == {seq[i] : i \in 1..Len(seq)}

\* C23: a run of the full view is not aborted, and it renders every section
\* whose read did not fail; a failed savings estimate only leaves the
\* estimate out.
C23_FailuresDegradePerSection ==
    view.outcome # "none" =>
        /\ view.outcome = "rendered"
        /\ Range(Sections) \ view.failed \subseteq Range(view.sections)

(***************************************************************************)
(* Properties of the performance tracker                                   *)
(***************************************************************************)

\* C24: after n recorded invocations the history holds min(n, 100) entries,
\* the most recent ones in the order they were recorded.
C24_HistoryIsRingBuffer ==
    LET n == tracker.profile.invocations
        history == tracker.profile.history
    IN  /\ Len(history) = Min(n, 100)
        /\ \A i \in 1..Len(history) : history[i].invocation = n - Len(history) + i

\* 150 invocations recorded: the history holds the invocations 51 to 150
C24_Witness ==
    /\ tracker.profile.invocations = 150
    /\ Len(tracker.profile.history) = 100
    /\ tracker.profile.history[1].invocation = 51
    /\ tracker.profile.history[100].invocation = 150

\* the entries of the history recorded in the last 30 days
Recent == { i \in 1..Len(tracker.profile.history) :
              tracker.today - tracker.profile.history[i].day <= 30 }

\* the success rate, in per cent times the size, of a set of entries
RecentSuccesses(entries) ==
    Cardinality({i \in entries : tracker.profile.history[i].success})

\* C25: with fewer than 10 entries in the 30-day window the trend is
\* 'stable'; with 10 or more it is 'improving' when the success rate of the
\* second half is more than 5 points above that of the first half,
\* 'declining' when it is more than 5 points below, 'stable' otherwise.
\* The trend is the one computed by the last recording, so the window is
\* taken on the day of that recording.
C25_TrendFromTenEntries ==
    (/\ tracker.profile.invocations > 0
     /\ tracker.profile.history[Len(tracker.profile.history)].day = tracker.today) =>
        LET n == Cardinality(Recent)
            \* the window is the tail of the history: its entries are the last n
            start == Len(tracker.profile.history) - n
            firstHalf == { i \in Recent : i - start <= n \div 2 }
            secondHalf == Recent \ firstHalf
            n1 == Cardinality(firstHalf)
            n2 == Cardinality(secondHalf)
            \* rate2 - rate1 in percentage points, times n1 * n2
            gap == 100 * ((RecentSuccesses(secondHalf) * n1)
                             - (RecentSuccesses(firstHalf) * n2))
        IN  /\ n < 10 => tracker.profile.trend = "stable"
            /\ n >= 10 =>
                  tracker.profile.trend =
                     IF gap > 5 * n1 * n2 THEN "improving"
                     ELSE IF -gap > 5 * n1 * n2 THEN "declining"
                     ELSE "stable"

\* ten entries in the window, five failures then five successes: improving
C25_Witness ==
    /\ tracker.profile.invocations = 10
    /\ tracker.profile.history[10].day = tracker.today
    /\ \A i \in 1..5 : ~tracker.profile.history[i].success
    /\ \A i \in 6..10 : tracker.profile.history[i].success
    /\ tracker.profile.trend = "improving"

====
